---- MODULE Spec2Model ----
(***************************************************************************)
(* Model of supabase-reactive: a local reactive tree kept in sync with one *)
(* remote row.  The session code is lib/reactive.js of the current         *)
(* revision (src/unnamed/part_001); the earlier revision kept at           *)
(* src/lib/reactive.js is modelled separately at the end (Lg* names).      *)
(***************************************************************************)
EXTENDS Integers, Sequences, FiniteSets, TLC

\* ---------------------------------------------------------------- bounds
\* User / environment operations in one behaviour (mutations, reads, writes
\* by other clients, flush, destroy, repeated init or watch calls).
MaxOps == 2
\* Calls of $touchLocal that pass its guard, per session.
MaxWrites == 3
\* Largest reading of the wall clock.
MaxTime == 2

\* ------------------------------------------------------------------ data
Sess == {"A", "B"}

ABSENT == "absent"
\* JSON null as a value of the tree.
NULLV == "null"
\* A plain nested object (a JSON mapping or array) held as a value.
OBJ == "object"
\* A scalar.
PRIM == "scalar"

\* Keys are sequences of characters; the second one begins with a reserved
\* marker.
Keys == {<<"a">>, <<"_", "b">>}
UserVals == {PRIM, OBJ}
Vals == UserVals \cup {NULLV}
Trees == [Keys -> Vals \cup {ABSENT}]
EmptyTree == [k \in Keys |-> ABSENT]
KeysOf(t) == {k \in Keys : t[k] # ABSENT}

\* The data column of a row: null, or a JSON mapping.
NullData == [nul |-> TRUE, t |-> EmptyTree]
Data(t) == [nul |-> FALSE, t |-> t]

\* $meta.version / a version column: null or a number.
NoVer == -1
\* A timestamp value: null, a Date object, or the ISO string the REST query
\* returns for a timestamptz column.
NoTs == [kind |-> "null", t |-> 0]
Str(t) == [kind |-> "str", t |-> t]
\* new Date(x) for x null or an ISO string; new Date(null) is the epoch.
NewDate(x) == [kind |-> "date", t |-> x.t]
\* JavaScript truthiness of what $meta.timestamp / options.timestamp hold:
\* null is falsy, a Date object or a non-empty string truthy.
Truthy(x) == x.kind # "null"
\* JavaScript truthiness of a number or null (options.version).
TruthyNum(n) == n # NoVer /\ n # 0
\* ToNumber of a version operand: null converts to 0.
VerNum(n) == IF n = NoVer THEN 0 ELSE n
\* dataVersion <= $meta.version of JavaScript.
VerLeq(a, b) == VerNum(a) <= VerNum(b)
\* (variant: the ISO string parsed before the comparison)
DateLeqParsed(d, x) == d.t <= x.t
\* dataTimestamp <= $meta.timestamp of JavaScript with a Date on the left:
\* a Date right operand compares by time value, an ISO string converts to NaN
\* and every comparison with NaN is false.
DateLeq(d, x) == x.kind = "date" /\ d.t <= x.t

\* ------------------------------------------------------- pure functions
\* /^[$\_]/.test(k)
Reserved(k) == Head(k) \in {"$", "_"}

\* The customizer of $toObject(), per key and value: a reserved key, or a value
\* that is no string/number/boolean/array/plain object (null included), is
\* replaced by null; the key stays.
CloneValue(k, v) ==
    IF ~Reserved(k) /\ v \in {PRIM, OBJ} THEN v ELSE NULLV

\* $toObject(): cloneDeepWith over the enumerable keys of the tree.
ToObject(t) == [k \in Keys |-> IF t[k] = ABSENT THEN ABSENT ELSE CloneValue(k, t[k])]

\* (variant: nothing assigned)
AssignNothing(t, d) == t
\* Object.assign(reactive, data): null sources are skipped.
Assign(t, d) ==
    [k \in Keys |-> IF ~d.nul /\ d.t[k] # ABSENT THEN d.t[k] ELSE t[k]]

\* The removeKeys loop of $set unwinds with a TypeError at its first key when
\* data is null (`key in null`).
SetThrows(t, d, removeKeys) ==
    removeKeys /\ d.nul /\ KeysOf(Assign(t, d)) # {}

\* (variant: the removeKeys loop left out)
SetTreeKeep(t, d, removeKeys) == Assign(t, d)
\* The tree after the assignments of $set: Object.assign, then (removeKeys)
\* delete of every key of the tree that data does not have.
SetTree(t, d, removeKeys) ==
    LET assigned == Assign(t, d) IN
    IF removeKeys /\ ~d.nul
    THEN [k \in Keys |-> IF d.t[k] = ABSENT THEN ABSENT ELSE assigned[k]]
    ELSE assigned

\* Whether the assignments of $set trigger a deep watcher: a key added or
\* deleted, a scalar replaced by another value, or any nested object assigned
\* (a parsed payload is a new object each time).
SetTriggers(t, d, removeKeys) ==
    \/ \E k \in Keys : ~d.nul /\ d.t[k] # ABSENT /\ (d.t[k] = OBJ \/ d.t[k] # t[k])
    \/ SetTree(t, d, removeKeys) # Assign(t, d)

\* (variant: the data column as it is)
DataRaw(r) == r.data
\* dataVal of $read / the result of $fetch for a single-record session:
\* data?.[dataColumn] || {}
DataVal(r) == IF r.data.nul THEN Data(EmptyTree) ELSE r.data

\* ----------------------------------------------------------------- state
VARIABLES
    now,      \* the wall clock (new Date())
    row,      \* the remote row: [data, ts, ver]
    cfg,      \* settings of each session
    tree,     \* reactive: the local tree
    meta,     \* $meta: [timestamp, version, isUpdating, watcher]
    watchers, \* deep watchers registered on the tree through reactiveWatch
    subs,     \* realtime channels registered with $touchRemote as handler
    job,      \* the watcher job queued by the observable runtime: who queued it
    deb,      \* the debounce timer around $touchLocal
    ip,       \* $init: where the call stands
    rd,       \* $read: where the call stands, and the row its query returned
    lock,     \* the $set call waiting in $waitTick, and for whom
    tl,       \* $touchLocal calls past the isUpdating guard
    promise,  \* $touchLocal.promise: the upsert issued last (0: none)
    chan,     \* UPDATE events on their way to $touchRemote
    fl,       \* $flush: where the call stands and the promise it took
    ds,       \* $destroy: where the call stands
    cb,       \* calls counted: onInit, onRead, onChange, onDestroy, upserts, ...
    ft,       \* $fetch: where the call stands, the row it got, what it returned
    ops,      \* operations of the user and of other clients so far
    last,     \* the step just taken, and the $meta and tree it started from
    lg        \* the session of the earlier revision (src/lib/reactive.js)

vars == <<now, row, cfg, tree, meta, watchers, subs, job, deb, ip, rd, lock,
          tl, promise, chan, fl, ds, cb, ft, ops, last, lg>>

Throttles == {"off", "short", "long"}
Settings == [on : BOOLEAN, read : BOOLEAN, watch : BOOLEAN, write : BOOLEAN,
             ver : BOOLEAN, throttle : Throttles, isArray : BOOLEAN]
\* The defaults of the module, with versionColumn and throttle as given.
Defaults(versioned, throttle) ==
    [on |-> TRUE, read |-> TRUE, watch |-> TRUE, write |-> TRUE,
     ver |-> versioned, throttle |-> throttle, isArray |-> FALSE]
Off == [Defaults(FALSE, "off") EXCEPT !.on = FALSE]

Meta0 == [timestamp |-> NoTs, version |-> NoVer, isUpdating |-> FALSE, watcher |-> FALSE]
Rd0 == [pc |-> "idle", force |-> FALSE, by |-> "user", err |-> FALSE,
        snap |-> [data |-> NullData, ts |-> NoTs, ver |-> NoVer]]
Lock0 == [owner |-> "none", d |-> NullData]
Fl0 == [pc |-> "idle", on |-> 0, mut |-> 0, out |-> {}]
Deb0 == [st |-> "idle", by |-> {}]
Cb0 == [init |-> 0, read |-> 0, change |-> 0, destroy |-> 0, upsert |-> 0,
        calls |-> 0, threw |-> 0, failed |-> 0, mut |-> 0]

Row0 == [data |-> NullData, ts |-> NoTs, ver |-> NoVer]
Ft0 == [pc |-> "idle", snap |-> Row0, val |-> NullData]
Last0 == [act |-> "none", s |-> "A", e |-> Row0, m |-> Meta0, t |-> EmptyTree]

\* Rows as the tests seed them (version 0, data and edited_at possibly null).
InitRows ==
    {[data |-> d, ts |-> t, ver |-> 0] :
        d \in {NullData, Data([EmptyTree EXCEPT ![<<"a">>] = PRIM])},
        t \in {NoTs, Str(1)}}

\* Rows written before: at version 1, with data and a timestamp.
UsedRows ==
    {[data |-> Data([EmptyTree EXCEPT ![<<"a">>] = PRIM]), ts |-> Str(1), ver |-> 1]}

\* The state right after SupabaseReactive() built the reactives, on one of the
\* rows given; $init() is the first thing to run.
InitOn(configs, rows) ==
    /\ now = 1
    /\ row \in rows
    /\ cfg \in configs
    /\ tree = [s \in Sess |-> EmptyTree]
    /\ meta = [s \in Sess |-> Meta0]
    /\ watchers = [s \in Sess |-> 0]
    /\ subs = [s \in Sess |-> 0]
    /\ job = [s \in Sess |-> {}]
    /\ deb = [s \in Sess |-> Deb0]
    /\ ip = [s \in Sess |-> "new"]
    /\ rd = [s \in Sess |-> Rd0]
    /\ lock = [s \in Sess |-> Lock0]
    /\ tl = [s \in Sess |-> {}]
    /\ promise = [s \in Sess |-> 0]
    /\ chan = [s \in Sess |-> <<>>]
    /\ fl = [s \in Sess |-> Fl0]
    /\ ds = [s \in Sess |-> "no"]
    /\ cb = [s \in Sess |-> Cb0]
    /\ ft = [s \in Sess |-> Ft0]
    /\ ops = 0
    /\ last = Last0

InitMain(configs) == InitOn(configs, InitRows)

\* The session of the earlier revision as SupabaseReactive() builds it, with
\* settings.watch as given; isSubscribed is $watch.isSubscribed, handle
\* whether $watch.$watcher is assigned, active whether the watcher it stops
\* is registered, watchers the registered deep watchers.
Lg0(watch) ==
    [watch |-> watch, pc |-> "new", timestamp |-> NoTs, tree |-> EmptyTree,
     isSubscribed |-> "undefined", handle |-> FALSE, active |-> FALSE,
     watchers |-> 0, job |-> FALSE, subs |-> 0, writes |-> 0,
     calls |-> 0, threw |-> 0, failed |-> 0, ops |-> 0]

InitWith(configs) == InitMain(configs) /\ lg = Lg0(TRUE)

\* ------------------------------------------------------------ scheduling
\* Timers and network callbacks are macrotasks: none runs while the
\* observable runtime still has a watcher job queued (a microtask).
Quiet(s) == job[s] = {}

\* The debounce timer relative to the timer of $waitTick.  "first": it expires
\* before the write lock is released; "after": it cannot expire until the lock
\* is released; "free": either order.  throttle "short" has wait < updateDelay
\* (the defaults: 200 against 1000), "long" has wait > updateDelay.
DebOnLock(s) ==
    IF deb[s].st # "idle" /\ cfg[s].throttle = "short" THEN "first" ELSE deb[s].st
DebOnArm(s) ==
    IF ~meta[s].isUpdating \/ lock[s].owner = "stuck" THEN "free"
    ELSE IF cfg[s].throttle = "long" THEN "after"
    ELSE IF job[s] \cap {"read", "remote"} # {} THEN "first"
    ELSE "free"

\* A reading of the clock: time may have passed since the last one.
ClockReads == {t \in {now, now + 1} : t <= MaxTime}

\* The UPDATE event of a row, once per registered channel of each session.
Copies(e, n) == [i \in 1..n |-> e]
Notify(e) == [s \in Sess |-> chan[s] \o Copies(e, subs[s])]

\* --------------------------------------------------------------- actions
\* The user holds the reactive once the first $init() has resolved.
UserHas(s) == cfg[s].on /\ ip[s] \in {"done", "read2", "failed2"}

\* $watch(isWatching): the handle kept in $meta.watcher and the number of
\* registered watchers afterwards.
WatchResult(m, n, isWatching) ==
    IF isWatching = m.watcher THEN [watcher |-> m.watcher, n |-> n]
    ELSE IF isWatching THEN [watcher |-> TRUE, n |-> n + 1]
    ELSE [watcher |-> FALSE, n |-> n - 1]

\* $subscribe(true): $subscribe.isSubscribed is never assigned, so every call
\* registers a channel.  $subscribe(false) only logs.
SubscribeResult(n, isSubscribed) == IF isSubscribed THEN n + 1 ELSE n

\* (variant: $init() watching and subscribing whatever the settings)
InitRestAll(s, m) ==
    LET w == WatchResult(m, watchers[s], TRUE)
    IN  /\ meta' = [meta EXCEPT ![s] = [m EXCEPT !.watcher = w.watcher]]
        /\ watchers' = [watchers EXCEPT ![s] = w.n]
        /\ subs' = [subs EXCEPT ![s] = SubscribeResult(@, TRUE)]
        /\ ip' = [ip EXCEPT ![s] = "done"]
\* $init() after its read: $watch() if settings.watch, $subscribe() if
\* settings.write, then it resolves.  m is $meta as the read left it.
InitRest(s, m) ==
    LET w == IF cfg[s].watch THEN WatchResult(m, watchers[s], TRUE)
             ELSE [watcher |-> m.watcher, n |-> watchers[s]]
    IN  /\ meta' = [meta EXCEPT ![s] = [m EXCEPT !.watcher = w.watcher]]
        /\ watchers' = [watchers EXCEPT ![s] = w.n]
        /\ subs' = [subs EXCEPT ![s] = IF cfg[s].write THEN SubscribeResult(@, TRUE) ELSE @]
        /\ ip' = [ip EXCEPT ![s] = "done"]

\* The guard of $init(): it throws when $meta.timestamp is truthy.
InitThrows(m) == Truthy(m.timestamp)

\* $init(): run by SupabaseReactive() itself, and callable again on the
\* returned reactive.
InitCall(s) ==
    /\ cfg[s].on
    /\ ip[s] \in {"new", "done"}
    /\ ip[s] = "done" => ops < MaxOps /\ cb[s].calls < 2
    /\ ops' = IF ip[s] = "done" THEN ops + 1 ELSE ops
    /\ IF InitThrows(meta[s])
       THEN /\ cb' = [cb EXCEPT ![s].calls = @ + 1, ![s].threw = @ + 1]
            /\ UNCHANGED <<meta, watchers, subs, ip, rd>>
       ELSE /\ cb' = [cb EXCEPT ![s].calls = @ + 1]
            /\ IF cfg[s].read
               THEN /\ rd[s].pc = "idle"
                    /\ rd' = [rd EXCEPT ![s] = [Rd0 EXCEPT !.pc = "sent", !.by = "init"]]
                    /\ ip' = [ip EXCEPT ![s] = IF @ = "new" THEN "read" ELSE "read2"]
                    /\ UNCHANGED <<meta, watchers, subs>>
               ELSE /\ InitRest(s, meta[s])
                    /\ UNCHANGED rd
    /\ UNCHANGED <<now, row, cfg, tree, job, deb, lock, tl, promise, chan, fl, ds>>

\* The user calls $read(options): the query is sent.
UserRead(s, force) ==
    /\ UserHas(s)
    /\ ops < MaxOps
    /\ rd[s].pc = "idle"
    /\ rd' = [rd EXCEPT ![s] = [Rd0 EXCEPT !.pc = "sent", !.force = force]]
    /\ ops' = ops + 1
    /\ UNCHANGED <<now, row, cfg, tree, meta, watchers, subs, job, deb, ip, lock,
                   tl, promise, chan, fl, ds, cb>>

\* The remote store evaluates the query of $getQuery().
ReadEval(s) ==
    /\ rd[s].pc = "sent"
    /\ rd' = [rd EXCEPT ![s].pc = "got", ![s].snap = row]
    /\ UNCHANGED <<now, row, cfg, tree, meta, watchers, subs, job, deb, ip, lock,
                   tl, promise, chan, fl, ds, cb, ops>>

\* The synchronous part of $set(d, options) with markUpdating, on a session
\* whose $meta is m and not updating: the lock is taken, the tree assigned,
\* timestamp and version stored when truthy, and $waitTick begins.
SetSync(s, m, d, removeKeys, ts, ver, owner) ==
    LET throws == SetThrows(tree[s], d, removeKeys) IN
    /\ tree' = [tree EXCEPT ![s] = IF throws THEN Assign(@, d) ELSE SetTree(@, d, removeKeys)]
    /\ meta' = [meta EXCEPT ![s] =
                   [m EXCEPT !.isUpdating = TRUE,
                             !.timestamp = IF ~throws /\ Truthy(ts) THEN ts ELSE @,
                             !.version = IF ~throws /\ TruthyNum(ver) THEN ver ELSE @]]
    /\ job' = [job EXCEPT ![s] =
                  IF watchers[s] > 0 /\ ~throws /\ SetTriggers(tree[s], d, removeKeys)
                  THEN @ \cup {owner} ELSE @]
    /\ deb' = [deb EXCEPT ![s].st = DebOnLock(s)]
    /\ lock' = [lock EXCEPT ![s] = [owner |-> IF throws THEN "stuck" ELSE owner, d |-> d]]

\* (variant: $set never refuses)
SetNeverRejects(m) == FALSE
\* The guard of $set() with markUpdating: it throws when a $set is in progress.
SetRejects(m) == m.isUpdating

\* The response of the query reaches $read(): the callback, then $set().
ReadDeliver(s) ==
    /\ rd[s].pc = "got"
    /\ Quiet(s)
    /\ LET first == meta[s].version = NoVer
           m1 == IF first THEN [meta[s] EXCEPT !.version = 0] ELSE meta[s]
           ver == IF cfg[s].ver THEN rd[s].snap.ver ELSE NoVer
       IN IF SetRejects(m1)
          THEN /\ meta' = [meta EXCEPT ![s] = m1]
               /\ rd' = [rd EXCEPT ![s] = Rd0]
               /\ ip' = [ip EXCEPT ![s] = IF rd[s].by # "init" THEN @
                                          ELSE IF @ = "read" THEN "failed" ELSE "failed2"]
               /\ cb' = [cb EXCEPT ![s].init = IF first THEN @ + 1 ELSE @,
                                   ![s].read = IF first THEN @ ELSE @ + 1,
                                   ![s].failed = @ + 1]
               /\ UNCHANGED <<tree, job, deb, lock>>
          ELSE /\ SetSync(s, m1, DataVal(rd[s].snap), ~rd[s].force, rd[s].snap.ts, ver, "read")
               /\ rd' = [rd EXCEPT ![s].pc = "set"]
               /\ cb' = [cb EXCEPT ![s].init = IF first THEN @ + 1 ELSE @,
                                   ![s].read = IF first THEN @ ELSE @ + 1]
               /\ UNCHANGED ip
    /\ UNCHANGED <<now, row, cfg, watchers, subs, tl, promise, chan, fl, ds, ops>>

\* (variants of the conflict check: a strict version comparison; one
\* comparison per mode)
RemoteRejectsStrict(c, m, e) ==
    \/ c.ver /\ VerNum(e.ver) < VerNum(m.version)
    \/ Truthy(m.timestamp) /\ DateLeq(NewDate(e.ts), m.timestamp)
RemoteRejectsByMode(c, m, e) ==
    IF c.ver THEN VerLeq(e.ver, m.version)
    ELSE Truthy(m.timestamp) /\ DateLeq(NewDate(e.ts), m.timestamp)
\* The conflict check of $touchRemote: the event is dropped when either holds.
RemoteRejects(c, m, e) ==
    \/ c.ver /\ VerLeq(e.ver, m.version)
    \/ Truthy(m.timestamp) /\ DateLeq(NewDate(e.ts), m.timestamp)

\* A notification without a payload (no `new` record): the columns of a row
\* are not there to be read.
NoPayload == [data |-> NullData, ts |-> [kind |-> "absent", t |-> 0], ver |-> NoVer]
\* (variant: every notification taken to have a payload)
EveryEvent(e) == TRUE
\* data.new of $touchRemote.
HasNew(e) == e.ts.kind # "absent"

\* $touchRemote(data) for the next event of the channel.
TouchRemote(s) ==
    /\ chan[s] # <<>>
    /\ Quiet(s)
    /\ chan' = [chan EXCEPT ![s] = Tail(@)]
    /\ LET e == Head(chan[s]) IN
       IF ~HasNew(e) \/ RemoteRejects(cfg[s], meta[s], e)
       THEN UNCHANGED <<tree, meta, job, deb, lock, cb>>
       ELSE IF SetRejects(meta[s])
       THEN /\ cb' = [cb EXCEPT ![s].failed = @ + 1]
            /\ UNCHANGED <<tree, meta, job, deb, lock>>
       ELSE /\ SetSync(s, meta[s], e.data, TRUE, NewDate(e.ts),
                       IF cfg[s].ver THEN e.ver ELSE NoVer, "remote")
            /\ UNCHANGED cb
    /\ UNCHANGED <<now, row, cfg, watchers, subs, ip, rd, tl, promise, fl, ds, ops>>

\* $waitTick() of the pending $set() ends: the lock is released and the caller
\* of $set() goes on ($read returns to $init or to the user; $touchRemote
\* calls onRead).
LockRelease(s) ==
    /\ lock[s].owner \in {"read", "remote"}
    /\ Quiet(s)
    /\ deb[s].st # "first"
    /\ lock' = [lock EXCEPT ![s] = Lock0]
    /\ deb' = [deb EXCEPT ![s].st = IF @ = "after" THEN "free" ELSE @]
    /\ LET m == [meta[s] EXCEPT !.isUpdating = FALSE] IN
       IF lock[s].owner = "read"
       THEN /\ rd' = [rd EXCEPT ![s] = Rd0]
            /\ UNCHANGED cb
            /\ IF rd[s].by = "init"
               THEN InitRest(s, m)
               ELSE /\ meta' = [meta EXCEPT ![s] = m]
                    /\ UNCHANGED <<watchers, subs, ip>>
       ELSE /\ meta' = [meta EXCEPT ![s] = m]
            /\ cb' = [cb EXCEPT ![s].read = @ + 1]
            /\ UNCHANGED <<rd, watchers, subs, ip>>
    /\ UNCHANGED <<now, row, cfg, tree, job, tl, promise, chan, fl, ds, ops>>

\* The user assigns or deletes a key of the tree (a change of its value); a
\* registered deep watcher has the runtime queue its job.  The job notes
\* whether the write lock was held at the time ("held") or not ("user").
Assignment(s, k, v) ==
    /\ UserHas(s)
    /\ v # tree[s][k]
    /\ tree' = [tree EXCEPT ![s][k] = v]
    /\ job' = [job EXCEPT ![s] =
                  IF watchers[s] = 0 THEN @
                  ELSE @ \cup {IF meta[s].isUpdating THEN "held" ELSE "user"}]
    /\ cb' = [cb EXCEPT ![s].mut = @ + 1]
    /\ UNCHANGED <<now, row, cfg, meta, watchers, subs, deb, ip, rd, lock, tl,
                   promise, chan, fl, ds>>

\* One of the operations of the user that are counted.
Mutate(s, k, v) ==
    /\ ops < MaxOps
    /\ Assignment(s, k, v)
    /\ ops' = ops + 1

\* (variant: $touchLocal() ignoring every call)
AlwaysIgnored(m) == TRUE
\* The guard of $touchLocal().
LocalIgnored(m) == m.isUpdating

\* payloadVersion of $touchLocal().
PayloadVersion(c, m) == IF c.ver THEN VerNum(m.version) + 1 ELSE 0

\* (variant: array sessions written back like the others)
ArrayWritten(c) == FALSE
\* `if (settings.isArray) throw ...` of $touchLocal().
ArrayUnsupported(c) == c.isArray

\* $touchLocal() up to `await settings.onChange(payload)`.  by: what changed
\* the tree in the burst that led to the call (the user, a $read, an event).
\* In an array session the call fails once the payload, its timestamp and its
\* version are computed.
TouchLocalEnter(s, by) ==
    IF LocalIgnored(meta[s])
    THEN UNCHANGED <<now, tl, cb>>
    ELSE IF ArrayUnsupported(cfg[s])
    THEN /\ \E t \in ClockReads : now' = t
         /\ cb' = [cb EXCEPT ![s].failed = @ + 1]
         /\ UNCHANGED tl
    ELSE /\ cb[s].change < MaxWrites
         /\ \E t \in ClockReads :
               /\ now' = t
               /\ tl' = [tl EXCEPT ![s] = @ \cup
                            {[id |-> cb[s].change + 1, pc |-> "change",
                              payload |-> ToObject(tree[s]), ts |-> t,
                              ver |-> PayloadVersion(cfg[s], meta[s]), by |-> by]}]
         /\ cb' = [cb EXCEPT ![s].change = @ + 1]

\* The runtime runs the queued watcher job: the callback given to
\* reactiveWatch is $touchLocal itself, or its debounced wrapper, whose timer
\* (re)starts.
VueFlush(s) ==
    /\ job[s] # {}
    /\ watchers[s] > 0
    /\ job' = [job EXCEPT ![s] = {}]
    /\ IF cfg[s].throttle = "off"
       THEN /\ TouchLocalEnter(s, job[s])
            /\ UNCHANGED deb
       ELSE /\ deb' = [deb EXCEPT ![s] = [st |-> DebOnArm(s), by |-> @.by \cup job[s]]]
            /\ UNCHANGED <<now, tl, cb>>
    /\ UNCHANGED <<row, cfg, tree, meta, watchers, subs, ip, rd, lock, promise,
                   chan, fl, ds, ops>>

\* The debounce timer expires (trailing edge): $touchLocal() is called.
DebounceFire(s) ==
    /\ deb[s].st \in {"first", "free"}
    /\ Quiet(s)
    /\ deb' = [deb EXCEPT ![s] = Deb0]
    /\ TouchLocalEnter(s, deb[s].by)
    /\ UNCHANGED <<row, cfg, tree, meta, watchers, subs, job, ip, rd, lock,
                   promise, chan, fl, ds, ops>>

\* (variant: $meta left as it is until the upsert is answered)
NotAdvanced(c, m, w) == m
\* $meta as $touchLocal() leaves it before the upsert is sent: the timestamp of
\* the payload, and the version raised by one.
Advanced(c, m, w) ==
    [m EXCEPT !.timestamp = [kind |-> "date", t |-> w.ts],
              !.version = IF c.ver THEN VerNum(@) + 1 ELSE @]

\* $touchLocal() after onChange: timestamp and version of $meta advance, the
\* upsert is sent and kept as $touchLocal.promise.
TouchLocalIssue(s, w) ==
    /\ w \in tl[s]
    /\ w.pc = "change"
    /\ meta' = [meta EXCEPT ![s] = Advanced(cfg[s], @, w)]
    /\ tl' = [tl EXCEPT ![s] = (@ \ {w}) \cup {[w EXCEPT !.pc = "upsert"]}]
    /\ promise' = [promise EXCEPT ![s] = w.id]
    /\ cb' = [cb EXCEPT ![s].upsert = @ + 1]
    /\ UNCHANGED <<now, row, cfg, tree, watchers, subs, job, deb, ip, rd, lock,
                   chan, fl, ds, ops>>

\* The row an upsert leaves: data and timestamp replaced, the version column
\* only when the payload names it.
Upserted(r, c, w) ==
    [data |-> Data(w.payload), ts |-> Str(w.ts),
     ver |-> IF c.ver THEN w.ver ELSE r.ver]

\* The remote store applies an upsert, notifies the channels, and the promise
\* of the upsert settles.
UpsertLand(s, w) ==
    /\ w \in tl[s]
    /\ w.pc = "upsert"
    /\ row' = Upserted(row, cfg[s], w)
    /\ chan' = Notify(row')
    /\ tl' = [tl EXCEPT ![s] = @ \ {w}]
    /\ UNCHANGED <<now, cfg, tree, meta, watchers, subs, job, deb, ip, rd, lock,
                   promise, fl, ds, cb, ops>>

\* Another client updates the row.
ExtData == {NullData, Data([EmptyTree EXCEPT ![<<"a">>] = OBJ]),
            Data([EmptyTree EXCEPT ![<<"_", "b">>] = PRIM])}
ExternalWrite(d, t, v) ==
    /\ ops < MaxOps
    /\ row' = [data |-> d, ts |-> Str(t), ver |-> v]
    /\ chan' = Notify(row')
    /\ ops' = ops + 1
    /\ UNCHANGED <<now, cfg, tree, meta, watchers, subs, job, deb, ip, rd, lock,
                   tl, promise, fl, ds, cb>>

\* $flush(): Promise.all of $touchLocal.promise as it is at the call, and a
\* timer.  The call notes how many mutations the user had made and which
\* upserts were issued and not settled.
FlushTake(s) ==
    /\ UserHas(s)
    /\ fl[s].pc \in {"idle", "rejected"}
    /\ fl' = [fl EXCEPT ![s] = [pc |-> "wait", on |-> promise[s], mut |-> cb[s].mut,
                                out |-> {w.id : w \in {x \in tl[s] : x.pc = "upsert"}}]]
    /\ UNCHANGED <<now, row, cfg, tree, meta, watchers, subs, job, deb, ip, rd,
                   lock, tl, promise, chan, ds, cb>>

\* The user calls $flush().
FlushCall(s) ==
    /\ ops < MaxOps
    /\ FlushTake(s)
    /\ ops' = ops + 1

\* Whether the promise a $flush() took has resolved (an upsert answered with an
\* error resolves it too).
Settled(s, id) == ~\E w \in tl[s] : w.id = id /\ w.pc \in {"change", "upsert", "rejected"}

FlushResolve(s) ==
    /\ fl[s].pc = "wait"
    /\ Quiet(s)
    /\ Settled(s, fl[s].on)
    /\ fl' = [fl EXCEPT ![s] = Fl0]
    /\ UNCHANGED <<now, row, cfg, tree, meta, watchers, subs, job, deb, ip, rd,
                   lock, tl, promise, chan, ds, cb, ops>>

\* The query of a $read() fails.  The client either answers with an error and
\* no data (the convention the test setup relies on), which $read() takes as
\* a row without columns, or throws, and $read() (and an $init() awaiting
\* it) rejects.
QueryFail(s, thrown) ==
    /\ rd[s].pc = "sent"
    /\ IF thrown
       THEN /\ rd' = [rd EXCEPT ![s] = Rd0]
            /\ ip' = [ip EXCEPT ![s] = IF rd[s].by # "init" THEN @
                                       ELSE IF @ = "read" THEN "failed" ELSE "failed2"]
            /\ cb' = [cb EXCEPT ![s].failed = @ + 1]
       ELSE /\ rd' = [rd EXCEPT ![s].pc = "got", ![s].snap = Row0, ![s].err = TRUE]
            /\ UNCHANGED <<ip, cb>>
    /\ UNCHANGED <<now, row, cfg, tree, meta, watchers, subs, job, deb, lock,
                   tl, promise, chan, fl, ds, ops>>

\* An upsert fails: the row stays as it is and nothing is notified.  The
\* client either answers with an error, and the promise resolves, or throws,
\* and the promise rejects.
UpsertFail(s, w, thrown) ==
    /\ w \in tl[s]
    /\ w.pc = "upsert"
    /\ tl' = [tl EXCEPT ![s] =
                 (@ \ {w}) \cup {[w EXCEPT !.pc = IF thrown THEN "rejected" ELSE "failed"]}]
    /\ UNCHANGED <<now, row, cfg, tree, meta, watchers, subs, job, deb, ip, rd,
                   lock, promise, chan, fl, ds, cb, ops>>

\* $flush() rejects: the promise it took has rejected.
FlushReject(s) ==
    /\ fl[s].pc = "wait"
    /\ \E w \in tl[s] : w.id = fl[s].on /\ w.pc = "rejected"
    /\ fl' = [fl EXCEPT ![s] = [Fl0 EXCEPT !.pc = "rejected"]]
    /\ UNCHANGED <<now, row, cfg, tree, meta, watchers, subs, job, deb, ip, rd,
                   lock, tl, promise, chan, ds, cb, ops>>

\* The user calls $refresh(options): it calls reactives.read, which is not
\* defined ($read is), and throws.
RefreshCall(s, force) ==
    /\ UserHas(s)
    /\ ops < MaxOps
    /\ cb' = [cb EXCEPT ![s].failed = @ + 1]
    /\ ops' = ops + 1
    /\ UNCHANGED <<now, row, cfg, tree, meta, watchers, subs, job, deb, ip, rd,
                   lock, tl, promise, chan, fl, ds>>

\* A notification without a payload reaches the channels of session s.
StrayEvent(s) ==
    /\ ops < MaxOps
    /\ subs[s] > 0
    /\ chan' = [chan EXCEPT ![s] = @ \o Copies(NoPayload, subs[s])]
    /\ ops' = ops + 1
    /\ UNCHANGED <<now, row, cfg, tree, meta, watchers, subs, job, deb, ip, rd,
                   lock, tl, promise, fl, ds, cb>>

\* The user calls $fetch(): the query of $getQuery() is sent ...
FetchCall(s) ==
    /\ UserHas(s)
    /\ ops < MaxOps
    /\ ft[s].pc \in {"idle", "ret"}
    /\ ft' = [ft EXCEPT ![s] = [Ft0 EXCEPT !.pc = "sent"]]
    /\ ops' = ops + 1
    /\ UNCHANGED <<now, row, cfg, tree, meta, watchers, subs, job, deb, ip, rd,
                   lock, tl, promise, chan, fl, ds, cb>>

\* ... the remote store evaluates it ...
FetchEval(s) ==
    /\ ft[s].pc = "sent"
    /\ ft' = [ft EXCEPT ![s].pc = "got", ![s].snap = row]
    /\ UNCHANGED <<now, row, cfg, tree, meta, watchers, subs, job, deb, ip, rd,
                   lock, tl, promise, chan, fl, ds, cb, ops>>

\* ... and $fetch() returns the data of the row it got.
FetchReturn(s) ==
    /\ ft[s].pc = "got"
    /\ Quiet(s)
    /\ ft' = [ft EXCEPT ![s].pc = "ret", ![s].val = DataVal(ft[s].snap)]
    /\ UNCHANGED <<now, row, cfg, tree, meta, watchers, subs, job, deb, ip, rd,
                   lock, tl, promise, chan, fl, ds, cb, ops>>

\* $watch(isWatching) applied to the session; an unregistered watcher's queued
\* job no longer runs.
WatchApply(s, isWatching) ==
    LET w == WatchResult(meta[s], watchers[s], isWatching) IN
    /\ meta' = [meta EXCEPT ![s].watcher = w.watcher]
    /\ watchers' = [watchers EXCEPT ![s] = w.n]
    /\ job' = [job EXCEPT ![s] = IF w.n = 0 THEN {} ELSE @]

\* The user calls $watch(isWatching).
WatchCall(s, isWatching) ==
    /\ UserHas(s)
    /\ ops < MaxOps
    /\ WatchApply(s, isWatching)
    /\ ops' = ops + 1
    /\ UNCHANGED <<now, row, cfg, tree, subs, deb, ip, rd, lock, tl, promise,
                   chan, fl, ds, cb>>

\* $destroy(): onDestroy is called and awaited ...
DestroyCall(s) ==
    /\ UserHas(s)
    /\ ops < MaxOps
    /\ ds[s] = "no"
    /\ ds' = [ds EXCEPT ![s] = "cb"]
    /\ cb' = [cb EXCEPT ![s].destroy = @ + 1]
    /\ ops' = ops + 1
    /\ UNCHANGED <<now, row, cfg, tree, meta, watchers, subs, job, deb, ip, rd,
                   lock, tl, promise, chan, fl>>

\* (variant: $destroy() dropping the writes that are under way)
DestroyFinishCancels(s) ==
    /\ ds[s] = "cb"
    /\ ds' = [ds EXCEPT ![s] = "done"]
    /\ WatchApply(s, FALSE)
    /\ subs' = [subs EXCEPT ![s] = SubscribeResult(@, FALSE)]
    /\ tl' = [tl EXCEPT ![s] = {}]
    /\ UNCHANGED <<now, row, cfg, tree, deb, ip, rd, lock, promise, chan,
                   fl, cb, ops>>
\* ... then $watch(false) and $subscribe(false), and $destroy() resolves.
DestroyFinish(s) ==
    /\ ds[s] = "cb"
    /\ ds' = [ds EXCEPT ![s] = "done"]
    /\ WatchApply(s, FALSE)
    /\ subs' = [subs EXCEPT ![s] = SubscribeResult(@, FALSE)]
    /\ UNCHANGED <<now, row, cfg, tree, deb, ip, rd, lock, tl, promise, chan,
                   fl, cb, ops>>

\* -------------------------------------------------------- specifications
\* The step just taken is remembered when it is a delivery to $touchRemote or
\* to $read (with the event or row delivered and the state it met).
Remember(act, s, e) ==
    /\ last' = [act |-> act, s |-> s, e |-> e, m |-> meta[s], t |-> tree[s]]
    /\ UNCHANGED <<ft, lg>>
Forget == last' = Last0 /\ UNCHANGED <<ft, lg>>

\* (variant: $init() registering the watcher before its read)
InitWatchFirst(s) ==
    /\ ip[s] = "new"
    /\ cfg[s].on
    /\ cb' = [cb EXCEPT ![s].calls = @ + 1]
    /\ IF cfg[s].read
       THEN /\ rd[s].pc = "idle"
            /\ rd' = [rd EXCEPT ![s] = [Rd0 EXCEPT !.pc = "sent", !.by = "init"]]
            /\ ip' = [ip EXCEPT ![s] = "read"]
            /\ meta' = [meta EXCEPT ![s].watcher = cfg[s].watch]
            /\ watchers' = [watchers EXCEPT ![s] = IF cfg[s].watch THEN 1 ELSE 0]
            /\ UNCHANGED subs
       ELSE /\ InitRest(s, meta[s])
            /\ UNCHANGED rd
    /\ UNCHANGED <<now, row, cfg, tree, job, deb, lock, tl, promise, chan, fl, ds, ops>>

InitFirst(s) == ip[s] = "new" /\ InitCall(s)
InitAgain(s) == ip[s] = "done" /\ InitCall(s)

\* What runs without the user: the runtime, timers, the network, the store.
System(s) ==
    \/ InitFirst(s) /\ Forget
    \/ ReadEval(s) /\ Forget
    \/ ReadDeliver(s) /\ Remember("read", s, rd[s].snap)
    \/ TouchRemote(s) /\ Remember("remote", s, Head(chan[s]))
    \/ LockRelease(s) /\ Forget
    \/ VueFlush(s) /\ Forget
    \/ (\E w \in tl[s] : TouchLocalIssue(s, w)) /\ Forget
    \/ (\E w \in tl[s] : UpsertLand(s, w)) /\ Forget

Debounced(s) == DebounceFire(s) /\ Forget

OtherClient ==
    /\ \E d \in ExtData, t \in 1..MaxTime, v \in {VerNum(row.ver), VerNum(row.ver) + 1} :
           ExternalWrite(d, t, v)
    /\ Forget

Configs(vs, ths) ==
    {[s \in Sess |-> IF s = "A" THEN Defaults(v, th) ELSE Off] : v \in vs, th \in ths}

\* Spec: one session without throttling, with and without a version column;
\* the user mutates and reads; other clients write the row.
Init == InitWith(Configs(BOOLEAN, {"off"}))
Next ==
    \/ \E s \in Sess : System(s)
    \/ \E s \in Sess, v \in UserVals \cup {ABSENT} : Mutate(s, <<"a">>, v) /\ Forget
    \/ \E s \in Sess : UserRead(s, FALSE) /\ Forget
    \/ OtherClient
Spec == Init /\ [][Next]_vars

\* ------------------------------------------ remote notifications (Spec)
\* The step is $touchRemote of session s taking the next event.
Consumed(s) == chan[s] # <<>> /\ chan'[s] = Tail(chan[s])
\* The step has $set take the write lock of session s.
LockTaken(s) == ~meta[s].isUpdating /\ meta'[s].isUpdating

\* C3: with a version column, an event whose version is not above
\* $meta.version leaves the tree, $meta.version and $meta.timestamp as they
\* were.
C3_StaleVersionIgnored ==
    [][\A s \in Sess :
          (/\ cfg[s].ver
           /\ Consumed(s)
           /\ meta[s].version # NoVer
           /\ Head(chan[s]).ver <= meta[s].version)
          => /\ tree'[s] = tree[s]
             /\ meta'[s].version = meta[s].version
             /\ meta'[s].timestamp = meta[s].timestamp]_vars
\* An event of a stale version, carrying other data than the tree, was handled.
C3_Witness ==
    /\ last.act = "remote"
    /\ cfg[last.s].ver
    /\ last.m.version # NoVer
    /\ last.e.ver <= last.m.version
    /\ last.e.data # Data(last.t)
    /\ tree[last.s] = last.t

\* C4: without a version column, an event whose timestamp is not after
\* $meta.timestamp leaves the tree as it was, whoever set $meta.timestamp.
C4_StaleTimestampIgnored ==
    [][\A s \in Sess :
          (/\ ~cfg[s].ver
           /\ Consumed(s)
           /\ Truthy(meta[s].timestamp)
           /\ Head(chan[s]).ts.t <= meta[s].timestamp.t)
          => tree'[s] = tree[s]]_vars

InitFlush == InitWith(Configs({FALSE}, Throttles))
NextFlush ==
    \/ \E s \in Sess : System(s)
    \/ \E s \in Sess : Debounced(s)
    \/ \E s \in Sess, k \in Keys, v \in UserVals \cup {ABSENT} : Mutate(s, k, v) /\ Forget
    \/ \E s \in Sess : FlushCall(s) /\ Forget
    \/ \E s \in Sess : FlushResolve(s) /\ Forget
SpecFlush == InitFlush /\ [][NextFlush]_vars

\* C1: when a $flush() called after the user's last mutation resolves, what
\* $fetch() returns equals the plain snapshot of the tree.
C1_FlushedEqualsFetch ==
    [][\A s \in Sess :
          (/\ fl[s].pc = "wait" /\ fl'[s].pc = "idle"
           /\ fl[s].mut > 0
           /\ cb[s].mut = fl[s].mut)
          => DataVal(row').t = ToObject(tree'[s])]_vars

\* ---------------------------------------------------- $set (SpecSet)
\* SpecSet: one session, no throttle, no version column; the user mutates
\* both keys and reads with and without force; another client, its clock in
\* step with the session's, writes the row.
InitSet == InitWith(Configs({FALSE}, {"off"}))
ClientInStep ==
    /\ \E d \in ExtData : ExternalWrite(d, now, VerNum(row.ver) + 1)
    /\ Forget
NextSet ==
    \/ \E s \in Sess : System(s)
    \/ \E s \in Sess, k \in Keys, v \in UserVals \cup {ABSENT} : Mutate(s, k, v) /\ Forget
    \/ \E s \in Sess, force \in BOOLEAN : UserRead(s, force) /\ Forget
    \/ ClientInStep
SpecSet == InitSet /\ [][NextSet]_vars

\* C7: $set with a snapshot S: with removeKeys the tree has exactly the keys
\* of S, with the values of S; without it every key of S has the value of S
\* and every other key of the tree is as it was.  ($read passes removeKeys
\* unless forced, $touchRemote always.)
C7_SetKeys ==
    [][\A s \in Sess :
          (LockTaken(s) /\ lock'[s].owner \in {"read", "remote"})
          => LET S == lock'[s].d.t
                 removeKeys == lock'[s].owner = "remote" \/ ~rd[s].force
             IN IF removeKeys
                THEN /\ KeysOf(tree'[s]) = KeysOf(S)
                     /\ \A k \in KeysOf(S) : tree'[s][k] = S[k]
                ELSE \A k \in Keys :
                        tree'[s][k] = IF k \in KeysOf(S) THEN S[k] ELSE tree[s][k]]_vars
\* $set with removeKeys has just run on a tree holding a key S has not, and S
\* is not empty.
C7_Witness ==
    /\ last.act \in {"read", "remote"}
    /\ lock[last.s].owner = last.act
    /\ last.act = "read" => ~rd[last.s].force
    /\ KeysOf(last.t) \ KeysOf(lock[last.s].d.t) # {}
    /\ KeysOf(lock[last.s].d.t) # {}
    /\ tree[last.s] = lock[last.s].d.t

\* --------------------------------------------------- echoes (SpecEcho)
\* SpecEcho: one session, any throttle, with and without a version column;
\* the user mutates the tree and reads; nobody else writes the row, so every
\* event is the echo of a write of the session.
InitEcho == InitWith(Configs(BOOLEAN, Throttles))
NextEcho ==
    \/ \E s \in Sess : System(s)
    \/ \E s \in Sess : Debounced(s)
    \/ \E s \in Sess, v \in UserVals \cup {ABSENT} : Mutate(s, <<"a">>, v) /\ Forget
    \/ \E s \in Sess : UserRead(s, FALSE) /\ Forget
SpecEcho == InitEcho /\ [][NextEcho]_vars

\* C6: the echo of a write never causes another onChange or upsert: no call
\* of $touchLocal passes its guard for a burst of changes that only an event
\* made.
C6_EchoCausesNoWrite ==
    \A s \in Sess : \A w \in tl[s] : w.by # {"remote"}

\* ------------------------------------------------ lifecycle (SpecLife)
\* SpecLife: one session, with and without the initial read, throttle off or
\* the default one; the user mutates, calls $init() again, $watch() and
\* $destroy(); other clients write the row.
ConfigsLife ==
    {[s \in Sess |-> IF s = "A" THEN [Defaults(FALSE, th) EXCEPT !.read = r] ELSE Off] :
        th \in {"off", "short"}, r \in BOOLEAN}
InitLife == InitWith(ConfigsLife)
NextLife ==
    \/ \E s \in Sess : System(s)
    \/ \E s \in Sess : Debounced(s)
    \/ \E s \in Sess, v \in UserVals \cup {ABSENT} : Mutate(s, <<"a">>, v) /\ Forget
    \/ \E s \in Sess : InitAgain(s) /\ Forget
    \/ \E s \in Sess : WatchCall(s, TRUE) /\ Remember("watch", s, Row0)
    \/ \E s \in Sess : WatchCall(s, FALSE) /\ Remember("unwatch", s, Row0)
    \/ \E s \in Sess : DestroyCall(s) /\ Forget
    \/ \E s \in Sess : DestroyFinish(s) /\ Forget
    \/ OtherClient
SpecLife == InitLife /\ [][NextLife]_vars

\* C9: once $destroy() has resolved, no call of $touchLocal passes its guard
\* (no onChange, no upsert), and no event changes the tree.
C9_DestroyedIsSilent ==
    [][\A s \in Sess :
          ds[s] = "done"
          => /\ cb'[s].change = cb[s].change
             /\ ~(Consumed(s) /\ tree'[s] # tree[s])]_vars

\* The later revision of $watch: the registered watchers are the one whose
\* handle $meta.watcher keeps, or none.
WatcherCountMatches ==
    \A s \in Sess : watchers[s] = (IF meta[s].watcher THEN 1 ELSE 0)

\* C10: a second call of $init() throws, and so neither reads, nor watches,
\* nor subscribes again.
C10_SecondInitThrows ==
    \A s \in Sess : cb[s].calls = 2 => /\ cb[s].threw = 1
                                       /\ ip[s] = "done"
                                       /\ subs[s] <= 1

\* ------------------------------------------------ two sessions (SpecTwo)
\* SpecTwo: sessions A and B on the same row, with the same settings; once
\* both are initialised the user of A assigns or deletes key "a", once; the
\* user of B does nothing and there is no other client.
InitTwo ==
    InitWith({[s \in Sess |-> Defaults(v, th)] : v \in BOOLEAN, th \in Throttles})
WriteByA ==
    /\ \A s \in Sess : ip[s] = "done"
    /\ cb["A"].mut = 0
    /\ \E v \in UserVals \cup {ABSENT} : Mutate("A", <<"a">>, v)
    /\ Forget
NextTwo ==
    \/ \E s \in Sess : System(s)
    \/ \E s \in Sess : Debounced(s)
    \/ WriteByA
\* The runtime, the timers, the network and the store do not stall.
SpecTwo ==
    /\ InitTwo /\ [][NextTwo]_vars
    /\ \A s \in Sess : WF_vars(System(s)) /\ WF_vars(Debounced(s))

Converged ==
    /\ tree["A"] = DataVal(row).t
    /\ tree["B"] = DataVal(row).t
\* C2: B accepts the event of the write of A (the first event B gets, B
\* having written and accepted nothing before), and from some time on the row
\* read back ($fetch) equals the tree of A and the tree of B.
C2_TwoSessionsConverge ==
    /\ [][(Consumed("B") /\ meta["B"].timestamp.kind # "date") => LockTaken("B")]_vars
    /\ <>[](cb["A"].mut = 1 => Converged)
\* A has written, B has taken the data of A, and all is at rest.
C2_Witness ==
    /\ cb["A"].mut = 1
    /\ cb["A"].upsert = 1
    /\ cb["B"].read = 1
    /\ Converged
    /\ tree["B"][<<"a">>] = OBJ
    /\ \A s \in Sess : tl[s] = {} /\ chan[s] = <<>> /\ lock[s] = Lock0

\* ------------------------------------------------ versions (SpecVer)
\* SpecVer: one session with a version column and no throttle, on a row that
\* is new or was written before; the user mutates and reads; other clients
\* write the row.
InitVer == InitOn(Configs({TRUE}, {"off"}), InitRows \cup UsedRows) /\ lg = Lg0(TRUE)
SpecVer == InitVer /\ [][Next]_vars

\* The step delivers the row of a query to $read() of session s.
ReadGot(s) == rd[s].pc = "got" /\ rd'[s].pc # "got"

\* C11: with a version column $meta.version never decreases; the first read,
\* of a row at version 0, leaves it 0; every upsert issued by $touchLocal
\* raises it by one.
C11_VersionMonotone ==
    [][\A s \in Sess :
          cfg[s].ver
          => /\ VerNum(meta'[s].version) >= VerNum(meta[s].version)
             /\ (ReadGot(s) /\ meta[s].version = NoVer /\ rd[s].snap.ver = 0)
                => meta'[s].version = 0
             /\ cb'[s].upsert = cb[s].upsert + 1
                => meta'[s].version = VerNum(meta[s].version) + 1]_vars

\* ------------------------------------------- the write lock (SpecEcho)
\* C12: a change of the tree made while $meta.isUpdating is set (by $set
\* itself, or by the user) never reaches $touchLocal past its guard: no
\* onChange and no upsert comes of a burst that holds such a change.
C12_LockedChangesNotWritten ==
    \A s \in Sess : \A w \in tl[s] : w.by \cap {"read", "remote", "held"} = {}

\* ------------------------------------------- upsert payloads (SpecFlush)
\* C13: no payload handed to onChange and to the upsert has a key beginning
\* with `$` or `_`.
C13_NoReservedKeyInPayload ==
    \A s \in Sess : \A w \in tl[s] : \A k \in KeysOf(w.payload) : ~Reserved(k)

\* ------------------------------------------------- options (SpecOpts)
\* SpecOpts: one session without throttle, for every setting of read, write
\* and versionColumn; the user mutates, reads and destroys; other clients
\* write the row.
ConfigsOpts ==
    {[s \in Sess |-> IF s = "A" THEN [Defaults(v, "off") EXCEPT !.read = r, !.write = w]
                     ELSE Off] : v \in BOOLEAN, r \in BOOLEAN, w \in BOOLEAN}
InitOpts == InitWith(ConfigsOpts)
NextOpts ==
    \/ \E s \in Sess : System(s)
    \/ \E s \in Sess, v \in UserVals \cup {ABSENT} : Mutate(s, <<"a">>, v) /\ Forget
    \/ \E s \in Sess : UserRead(s, FALSE) /\ Forget
    \/ \E s \in Sess : DestroyCall(s) /\ Forget
    \/ \E s \in Sess : DestroyFinish(s) /\ Forget
    \/ OtherClient
SpecOpts == InitOpts /\ [][NextOpts]_vars

\* C14: with settings.write false no upsert is ever issued.
C14_WriteOffNoUpsert ==
    \A s \in Sess : (cfg[s].on /\ ~cfg[s].write) => cb[s].upsert = 0

\* C15: with settings.read false $init() reads nothing and no event changes
\* the tree.
C15_ReadOffTreeUntouched ==
    [][\A s \in Sess :
          (cfg[s].on /\ ~cfg[s].read)
          => /\ ip'[s] # "read"
             /\ Consumed(s) => tree'[s] = tree[s]]_vars

\* C16: onInit is called once, by the first read; every later read calls
\* onRead once and not onInit; onChange is called once by each $touchLocal
\* past its guard, and never for a burst of changes that only a read made;
\* onDestroy is called once by each $destroy().
C16_CallbackCounts ==
    [][\A s \in Sess :
          /\ (ReadGot(s) /\ cb[s].init = 0)
             => cb'[s].init = 1 /\ cb'[s].read = cb[s].read
          /\ (ReadGot(s) /\ cb[s].init > 0)
             => cb'[s].init = cb[s].init /\ cb'[s].read = cb[s].read + 1
          /\ ~ReadGot(s) => cb'[s].init = cb[s].init
          /\ cb'[s].change = cb[s].change + Cardinality(tl'[s] \ tl[s])
             \/ \E w \in tl[s] : w.pc = "change" /\ w \notin tl'[s]
          /\ \A w \in tl'[s] \ tl[s] : w.pc = "change" => w.by # {"read"}
          /\ cb'[s].destroy = cb[s].destroy + (IF ds[s] = "no" /\ ds'[s] = "cb" THEN 1 ELSE 0)]_vars

\* ---------------------------------------- $init and $fetch (SpecFetch)
\* SpecFetch: one session without throttle, with and without a version
\* column; the user mutates the tree and calls $fetch(); another client, its
\* clock in step with the session's, writes the row.
InitFetch == InitWith(Configs(BOOLEAN, {"off"}))
Fetching(s) ==
    /\ FetchCall(s) \/ FetchEval(s) \/ FetchReturn(s)
    /\ last' = Last0
    /\ UNCHANGED lg
NextFetch ==
    \/ \E s \in Sess : System(s)
    \/ \E s \in Sess : Fetching(s)
    \/ \E s \in Sess, v \in UserVals \cup {ABSENT} : Mutate(s, <<"a">>, v) /\ Forget
    \/ ClientInStep
SpecFetch == InitFetch /\ [][NextFetch]_vars

\* The data column of row r as a mapping: {} for null.
Mapping(r) == IF r.data.nul THEN EmptyTree ELSE r.data.t

\* C17: when the first $init() resolves after its read, the tree (its
\* enumerable keys and their values) is the data column of the row the read
\* got, {} for a null one, and so of the row as it is when nobody wrote it
\* since; $meta.version is 0 when that row is at version 0.
C17_InitTreeIsRowData ==
    [][\A s \in Sess :
          (cfg[s].read /\ ip[s] = "read" /\ ip'[s] = "done")
          => /\ tree'[s] = Mapping(rd[s].snap)
             /\ row' = rd[s].snap => tree'[s] = Mapping(row')
             /\ rd[s].snap.ver = 0 => meta'[s].version = 0]_vars
\* $init() has resolved on a row that holds data, at version 0.
C17_Witness ==
    \E s \in Sess :
        /\ ip[s] = "done" /\ cfg[s].read /\ cfg[s].ver
        /\ cb[s].init = 1 /\ ops = 0
        /\ tree[s][<<"a">>] = PRIM
        /\ tree[s] = Mapping(row)
        /\ meta[s].version = 0

\* C20: $fetch() returns the data column of the row its query got, {} for a
\* null one, which is what a $read() getting that row hands to $set; no step
\* of $fetch() changes the tree or $meta or calls a callback.
C20_FetchReadsOnly ==
    [][\A s \in Sess :
          /\ ft'[s] # ft[s] => tree' = tree /\ meta' = meta /\ cb' = cb
          /\ (ft[s].pc = "got" /\ ft'[s].pc = "ret")
             => ft'[s].val = Data(Mapping(ft[s].snap))
          /\ (ReadGot(s) /\ LockTaken(s))
             => lock'[s].d = Data(Mapping(rd[s].snap))]_vars
\* $fetch() has returned {} for a row without data while the tree holds a key.
C20_Witness ==
    \E s \in Sess :
        /\ ft[s].pc = "ret"
        /\ ft[s].snap.data.nul
        /\ ft[s].val = Data(EmptyTree)
        /\ tree[s][<<"a">>] = OBJ
        /\ ~meta[s].isUpdating

\* -------------------------------------- overlapping writes (SpecWrites)
\* SpecWrites: one session, any throttle, no version column; the user
\* mutates the tree and, having done so, calls $flush() any number of times;
\* nobody else writes the row.
FlushLater(s) == ops = MaxOps /\ FlushTake(s) /\ UNCHANGED ops
NextWrites ==
    \/ \E s \in Sess : System(s)
    \/ \E s \in Sess : Debounced(s)
    \/ \E s \in Sess, v \in UserVals \cup {ABSENT} : Mutate(s, <<"a">>, v) /\ Forget
    \/ \E s \in Sess : FlushLater(s) /\ Forget
    \/ \E s \in Sess : FlushResolve(s) /\ Forget
SpecWrites == InitFlush /\ [][NextWrites]_vars

\* The upserts of session s issued and not settled.
Outstanding(s) == {w.id : w \in {x \in tl[s] : x.pc = "upsert"}}

\* C18: when $flush() resolves, every upsert that was issued before it was
\* called has settled.
C18_FlushWaitsForAll ==
    [][\A s \in Sess :
          (fl[s].pc = "wait" /\ fl'[s].pc = "idle")
          => fl[s].out \cap Outstanding(s) = {}]_vars

\* C19: a session has at most one upsert issued and not settled, and
\* $touchLocal.promise is the upsert issued last.
C19_OneOutstandingUpsert ==
    /\ [](\A s \in Sess : Cardinality(Outstanding(s)) <= 1)
    /\ [][\A s \in Sess : \A w \in tl'[s] :
             (w.pc = "upsert" /\ w \notin tl[s]) => promise'[s] = w.id]_vars

\* -------------------------------------------- order of $init (SpecOrder)
\* SpecOrder: one session, each of read, watch and write enabled or not,
\* without throttling or with a wait above the delay of $set; the user
\* mutates the tree.
ConfigsOrder ==
    {[s \in Sess |-> IF s = "A"
                     THEN [Defaults(FALSE, th) EXCEPT !.read = r, !.watch = w, !.write = x]
                     ELSE Off] :
        r \in BOOLEAN, w \in BOOLEAN, x \in BOOLEAN, th \in {"off", "long"}}
InitOrder == InitWith(ConfigsOrder)
NextOrder ==
    \/ \E s \in Sess : System(s)
    \/ \E s \in Sess : Debounced(s)
    \/ \E s \in Sess, v \in UserVals \cup {ABSENT} : Mutate(s, <<"a">>, v) /\ Forget
SpecOrder == InitOrder /\ [][NextOrder]_vars

\* The first $init() of session s has not resolved yet.
InitPending(s) == ip[s] \in {"new", "read"}

\* C26: $init() reads first, and registers the watcher and the subscription
\* only when the read is complete ($set done, lock released); until then
\* there is no watcher, no subscription, no queued job, no onChange and no
\* upsert, and none is pending when $init() resolves.
C26_InitOrder ==
    /\ [](\A s \in Sess :
            InitPending(s)
            => /\ watchers[s] = 0 /\ ~meta[s].watcher /\ subs[s] = 0
               /\ job[s] = {} /\ deb[s] = Deb0 /\ tl[s] = {}
               /\ cb[s].change = 0 /\ cb[s].upsert = 0)
    /\ [][\A s \in Sess :
             (InitPending(s) /\ ip'[s] = "done")
             => /\ cfg[s].read
                   => /\ ip[s] = "read" /\ rd[s].pc = "set" /\ rd'[s] = Rd0
                      /\ cb[s].init = 1
                      /\ meta[s].isUpdating /\ ~meta'[s].isUpdating
                /\ watchers'[s] = (IF cfg[s].watch THEN 1 ELSE 0)
                /\ subs'[s] = (IF cfg[s].write THEN 1 ELSE 0)
                /\ job'[s] = {} /\ tl'[s] = {} /\ cb'[s].change = 0]_vars
\* $init() with all three steps enabled has resolved after a read that put
\* data into the tree; no onChange was called.
C26_Witness ==
    \E s \in Sess :
        /\ cfg[s].read /\ cfg[s].watch /\ cfg[s].write
        /\ ip[s] = "done"
        /\ last = Last0
        /\ cb[s].init = 1 /\ cb[s].mut = 0 /\ cb[s].change = 0
        /\ watchers[s] = 1 /\ subs[s] = 1
        /\ KeysOf(tree[s]) # {}

\* ------------------------------------- a change after $init (SpecAfter)
\* The user changes the tree once, when no $read() is in progress (so: after
\* $init() or $read() resolved).
MutateOnce(s) ==
    /\ cb[s].mut = 0
    /\ rd[s].pc = "idle"
    /\ \E v \in UserVals \cup {ABSENT} : Mutate(s, <<"a">>, v)
    /\ Forget
\* The user calls $read() before that change.
ReadBefore(s) == cb[s].mut = 0 /\ UserRead(s, FALSE) /\ Forget

\* SpecAfter: one session, any throttle, with and without a version column, on
\* a row that is new or was written before; the user may read, then changes
\* the tree once; nobody else writes the row; the runtime, the timers, the
\* network and the store do not stall.
InitAfter == InitOn(Configs(BOOLEAN, Throttles), InitRows \cup UsedRows) /\ lg = Lg0(TRUE)
NextAfter ==
    \/ \E s \in Sess : System(s)
    \/ \E s \in Sess : Debounced(s)
    \/ \E s \in Sess : ReadBefore(s)
    \/ \E s \in Sess : MutateOnce(s)
SpecAfter ==
    /\ InitAfter /\ [][NextAfter]_vars
    /\ \A s \in Sess : WF_vars(System(s)) /\ WF_vars(Debounced(s))

\* The one change of the user was written: one onChange, one upsert, settled,
\* and the row holds the tree.
Written(s) ==
    /\ cb[s].change = 1 /\ cb[s].upsert = 1
    /\ tl[s] = {}
    /\ row.data = Data(ToObject(tree[s]))

\* C27: a change of the tree made after $init() or $read() resolved is not
\* held back by the lock: it leads to one call of onChange and one upsert of
\* the tree with that change, and to no more than one.
C27_ChangeAfterInitWritten ==
    /\ [](\A s \in Sess : cb[s].change <= cb[s].mut /\ cb[s].upsert <= cb[s].change)
    /\ [][\A s \in Sess : \A w \in tl'[s] \ tl[s] :
             w.pc = "change" => w.payload = ToObject(tree[s]) /\ cb[s].mut = 1]_vars
    /\ <>[](\A s \in Sess : cb[s].mut = 1 => Written(s))
\* The change was made after a $read() of the user, and was written; its echo
\* was received and all is at rest.
C27_Witness ==
    \E s \in Sess :
        /\ cb[s].mut = 1 /\ cb[s].read = 1
        /\ tree[s][<<"a">>] = OBJ
        /\ Written(s)
        /\ chan[s] = <<>> /\ lock[s] = Lock0 /\ deb[s] = Deb0

\* ------------------------------------------ notifications (SpecEvents)
\* SpecEvents: one session without throttling, with and without a version
\* column; the user mutates the tree; other clients write the row, and
\* notifications without a payload arrive.
NextEvents ==
    \/ \E s \in Sess : System(s)
    \/ \E s \in Sess, v \in UserVals \cup {ABSENT} : Mutate(s, <<"a">>, v) /\ Forget
    \/ \E s \in Sess : StrayEvent(s) /\ Forget
    \/ OtherClient
SpecEvents == Init /\ [][NextEvents]_vars

\* The step calls onRead for session s.
OnReadCalled(s) == cb'[s].read # cb[s].read

\* C29: $touchRemote either accepts an event, and then the event has a
\* payload, $set has assigned it to the tree with the event's timestamp as
\* $meta.timestamp (and its version as $meta.version when versioned) and no
\* callback was called yet; or it changes neither the tree nor $meta and
\* calls no callback.  onRead is called once, when that $set has finished.
C29_OnReadAfterApply ==
    /\ [][\A s \in Sess :
             Consumed(s)
             => LET e == Head(chan[s]) IN
                IF LockTaken(s)
                THEN /\ e # NoPayload
                     /\ ~RemoteRejects(cfg[s], meta[s], e)
                     /\ lock'[s].d = e.data
                     /\ lock'[s].owner = "remote"
                        => /\ tree'[s] = SetTree(tree[s], e.data, TRUE)
                           /\ meta'[s].timestamp = NewDate(e.ts)
                           /\ cfg[s].ver => meta'[s].version = e.ver
                     /\ [cb'[s] EXCEPT !.failed = 0] = [cb[s] EXCEPT !.failed = 0]
                ELSE /\ tree'[s] = tree[s]
                     /\ meta'[s] = meta[s]
                     /\ lock'[s] = lock[s]
                     /\ [cb'[s] EXCEPT !.failed = 0] = [cb[s] EXCEPT !.failed = 0]]_vars
    /\ [][\A s \in Sess :
             OnReadCalled(s)
             => /\ cb'[s].read = cb[s].read + 1
                /\ lock[s].owner = "remote"
                /\ lock'[s] = Lock0
                /\ ~Consumed(s)]_vars
\* An event was accepted and onRead called for it once its payload was in the
\* tree; then an event without a payload was dropped.
C29_Witness ==
    /\ last.act = "remote"
    /\ last.e = NoPayload
    /\ cb[last.s].read = 1
    /\ cb[last.s].mut = 0 /\ cb[last.s].change = 0
    /\ lock[last.s] = Lock0
    /\ meta[last.s] = last.m
    /\ meta[last.s].timestamp.kind = "date"
    /\ tree[last.s] = last.t
    /\ tree[last.s] = Mapping(row)
    /\ KeysOf(tree[last.s]) # {}

\* ------------------------------------------------- offline (SpecOffline)
\* The settings of the offline test: read, watch and write all false.
Offline == [Defaults(FALSE, "off") EXCEPT !.read = FALSE, !.watch = FALSE, !.write = FALSE]
IsOffline(s) == cfg[s].on /\ ~cfg[s].read /\ ~cfg[s].watch /\ ~cfg[s].write

\* SpecOffline: session A with the defaults, session B offline, on the same
\* row; the users of both mutate their trees.
InitOffline ==
    InitWith({[s \in Sess |-> IF s = "A" THEN Defaults(FALSE, "off") ELSE Offline]})
NextOffline ==
    \/ \E s \in Sess : System(s)
    \/ \E s \in Sess, v \in UserVals \cup {ABSENT} : Mutate(s, <<"a">>, v) /\ Forget
SpecOffline == InitOffline /\ [][NextOffline]_vars

\* C23: a session with read, watch and write disabled sends no query, has no
\* watcher and no subscription, calls no callback and sends no upsert, and
\* its tree changes only by an assignment of the user, in the key assigned.
C23_OfflineSession ==
    /\ [](\A s \in Sess :
            IsOffline(s)
            => /\ rd[s] = Rd0 /\ watchers[s] = 0 /\ subs[s] = 0
               /\ job[s] = {} /\ tl[s] = {} /\ promise[s] = 0 /\ chan[s] = <<>>
               /\ meta[s] = Meta0 /\ lock[s] = Lock0
               /\ cb[s].init = 0 /\ cb[s].read = 0
               /\ cb[s].change = 0 /\ cb[s].upsert = 0)
    /\ [][\A s \in Sess :
             (IsOffline(s) /\ tree'[s] # tree[s])
             => /\ cb'[s].mut = cb[s].mut + 1
                /\ \E k \in Keys, v \in UserVals \cup {ABSENT} :
                      tree'[s] = [tree[s] EXCEPT ![k] = v]
                /\ row' = row]_vars
\* The user of the offline session has assigned a key after its $init()
\* resolved, while the other session has written the row: the tree holds the
\* assignment and differs from the row.
C23_Witness ==
    \E s \in Sess :
        /\ IsOffline(s)
        /\ ip[s] = "done"
        /\ cb[s].mut > 0
        /\ tree[s][<<"a">>] = OBJ
        /\ \E o \in Sess : cb[o].upsert > 0 /\ tl[o] = {}
        /\ row.data # Data(ToObject(tree[s]))

\* ------------------------------------------- the lock and echoes (SpecEcho)
\* The changes of the tree whose notification $touchLocal has yet to get: the
\* queued watcher job and the burst the debounce timer holds.
Pending(s) == job[s] \cup deb[s].by

\* C25: the notification of the changes a $set makes reaches $touchLocal
\* while the lock that $set took is still held: as long as one is pending,
\* $meta.isUpdating is true.
C25_SetChangeMeetsLock ==
    \A s \in Sess : Pending(s) \cap {"read", "remote"} # {} => meta[s].isUpdating

\* C28: an event that is the echo of an upsert of the session itself is
\* dropped by $touchRemote: tree and $meta stay as they are (under SpecEcho
\* nobody else writes the row, so every event is such an echo).
C28_EchoRejected ==
    [][\A s \in Sess : Consumed(s) => tree'[s] = tree[s] /\ meta'[s] = meta[s]]_vars

\* ------------------------------------------------ reentrant $set (Spec)
\* The step has $set called, with markUpdating, while a $set is in progress:
\* by $read() with the answer of its query, or by $touchRemote with an event
\* that passed the conflict check.
SetWhileUpdating(s) ==
    /\ meta[s].isUpdating
    /\ \/ ReadGot(s)
       \/ /\ Consumed(s)
          /\ HasNew(Head(chan[s]))
          /\ ~RemoteRejects(cfg[s], meta[s], Head(chan[s]))

\* C24: $set called with markUpdating while a $set is in progress fails and
\* leaves the tree, $meta.timestamp, $meta.version and $meta.isUpdating as
\* they were; the lock is held exactly while $meta.isUpdating, and is
\* released only by the end of the $set that took it.
C24_ReentrantSetFails ==
    /\ [][\A s \in Sess :
             SetWhileUpdating(s)
             => /\ cb'[s].failed = cb[s].failed + 1
                /\ tree'[s] = tree[s]
                /\ meta'[s] = meta[s]
                /\ lock'[s] = lock[s]]_vars
    /\ [](\A s \in Sess : meta[s].isUpdating <=> lock[s].owner # "none")
    /\ [][\A s \in Sess :
             (meta[s].isUpdating /\ ~meta'[s].isUpdating)
             => /\ lock[s].owner \in {"read", "remote"}
                /\ lock'[s] = Lock0
                /\ cb'[s].failed = cb[s].failed]_vars
\* $set has just refused a payload that differs from the tree, and the lock
\* is still held.
C24_Witness ==
    /\ last.act \in {"read", "remote"}
    /\ last.m.isUpdating
    /\ last.act = "remote" => HasNew(last.e) /\ ~RemoteRejects(cfg[last.s], last.m, last.e)
    /\ Mapping(last.e) # last.t
    /\ cb[last.s].failed > 0
    /\ tree[last.s] = last.t
    /\ meta[last.s] = last.m
    /\ lock[last.s].owner \in {"read", "remote"}

\* ------------------------------------------------ failures (SpecFail)
\* SpecFail: one session without throttling, with and without a version
\* column; the user mutates, reads, refreshes and flushes; queries and upserts
\* may fail, either way the client can report it.
InitFail == InitWith(Configs(BOOLEAN, {"off"}))
NextFail ==
    \/ \E s \in Sess : System(s)
    \/ \E s \in Sess, v \in UserVals \cup {ABSENT} : Mutate(s, <<"a">>, v) /\ Forget
    \/ \E s \in Sess : UserRead(s, FALSE) /\ Forget
    \/ \E s \in Sess : RefreshCall(s, FALSE) /\ Remember("refresh", s, Row0)
    \/ \E s \in Sess : FlushLater(s) /\ Forget
    \/ \E s \in Sess : FlushResolve(s) /\ Forget
    \/ \E s \in Sess : FlushReject(s) /\ Forget
    \/ \E s \in Sess, thrown \in BOOLEAN : QueryFail(s, thrown) /\ Forget
    \/ \E s \in Sess, thrown \in BOOLEAN :
          (\E w \in tl[s] : UpsertFail(s, w, thrown)) /\ Remember("failed", s, Row0)
SpecFail == InitFail /\ [][NextFail]_vars

\* The step is the answer of a failed query reaching $read().
FailedReadGot(s) == ReadGot(s) /\ rd[s].err
\* The step resolves a $flush() that waits for an upsert that failed.
FlushOfFailed(s) ==
    /\ fl[s].pc = "wait" /\ fl'[s].pc = "idle"
    /\ \E w \in tl[s] : w.id = fl[s].on /\ w.pc \in {"failed", "rejected"}

\* C21: remote failures are not swallowed: a $read() whose query failed
\* rejects (and so leaves the tree alone and takes no lock), and a $flush()
\* waiting for an upsert that failed rejects; a failed upsert is not sent
\* again.
C21_FailuresPropagate ==
    [][\A s \in Sess :
          /\ FailedReadGot(s)
             => /\ cb'[s].failed = cb[s].failed + 1
                /\ tree'[s] = tree[s]
          /\ ~FlushOfFailed(s)
          /\ \A w \in tl[s] : w.pc \in {"failed", "rejected"} => w \in tl'[s]]_vars

\* C22: $refresh(options) does what $read(options) does: the call sends the
\* query of $read() and does not fail.
C22_RefreshIsRead ==
    [][\A s \in Sess :
          (last'.act = "refresh" /\ last'.s = s /\ rd[s].pc = "idle")
          => /\ rd'[s].pc = "sent"
             /\ cb'[s].failed = cb[s].failed]_vars

\* SpecLost: one session without throttling, with and without a version
\* column; the user mutates the tree; upserts may fail.
NextLost ==
    \/ \E s \in Sess : System(s)
    \/ \E s \in Sess, v \in UserVals \cup {ABSENT} : Mutate(s, <<"a">>, v) /\ Forget
    \/ \E s \in Sess, thrown \in BOOLEAN :
          (\E w \in tl[s] : UpsertFail(s, w, thrown)) /\ Remember("failed", s, Row0)
SpecLost == InitFail /\ [][NextLost]_vars

\* The step is the failure of an upsert of session s.
UpsertFailed(s) ==
    \E w \in tl[s] : w.pc = "upsert" /\ w \notin tl'[s] /\ tl'[s] # tl[s] \ {w}
\* The step is $touchLocal() of session s sending the upsert of task w.
Issued(s, w) == w \in tl[s] /\ w.pc = "change" /\ [w EXCEPT !.pc = "upsert"] \in tl'[s]

\* C30: $touchLocal() advances $meta before the upsert is sent (timestamp to
\* that of the payload, version by one when versioned), and the failure of
\* an upsert changes neither $meta, nor the tree, nor the row.
C30_NoRollback ==
    [][\A s \in Sess :
          /\ \A w \in tl[s] :
                Issued(s, w)
                => /\ meta'[s].timestamp = [kind |-> "date", t |-> w.ts]
                   /\ cfg[s].ver => meta'[s].version = VerNum(meta[s].version) + 1
                   /\ ~cfg[s].ver => meta'[s].version = meta[s].version
          /\ UpsertFailed(s)
             => /\ meta'[s] = meta[s]
                /\ tree'[s] = tree[s]
                /\ row' = row]_vars
\* An upsert has just failed, $meta carries the timestamp of its payload and,
\* when versioned, a version above the row's; the tree is not what the row
\* holds.
C30_Witness ==
    /\ last.act = "failed"
    /\ \E w \in tl[last.s] :
          /\ w.pc \in {"failed", "rejected"}
          /\ meta[last.s].timestamp = [kind |-> "date", t |-> w.ts]
    /\ cfg[last.s].ver
    /\ meta[last.s].version > VerNum(row.ver)
    /\ meta[last.s] = last.m
    /\ tree[last.s] = last.t
    /\ Data(ToObject(tree[last.s])) # row.data

\* ------------------------------------------- release of the lock (SpecFair)
\* SpecFair: Spec, where the runtime, the timers, the network and the store
\* do not stall.
SpecFair == Spec /\ \A s \in Sess : WF_vars(System(s))

\* C36: every $set that sets $meta.isUpdating sets it back to false: a session
\* whose lock is held is later a session whose lock is not held.
C36_LockReleased ==
    \A s \in Sess : meta[s].isUpdating ~> ~meta[s].isUpdating

\* The step just taken is $touchRemote of session s refusing, because a $set
\* is in progress, an event with data d that passed the conflict check.
Dropped(s, d) ==
    /\ last.act = "remote" /\ last.s = s
    /\ last.e.data = d
    /\ HasNew(last.e)
    /\ ~RemoteRejects(cfg[s], last.m, last.e)
    /\ SetRejects(last.m)
\* The tree of session s is the data d of a row.
TreeIs(s, d) == tree[s] = (IF d.nul THEN EmptyTree ELSE d.t)

\* C39: an event that passes the conflict check while a $set is in progress is
\* not lost: its data is in the tree later on.
C39_PassingEventApplied ==
    \A s \in Sess : \A d \in ExtData : Dropped(s, d) ~> TreeIs(s, d)

\* ------------------------------------------------ $meta after $read (Spec)
\* C32: when $read() has $set store the row it read, $meta.timestamp is the
\* timestamp of that row and, with a version column, $meta.version its
\* version, whatever they are (a version 0 and a null timestamp included).
C32_MetaIsRowRead ==
    [][\A s \in Sess :
          (ReadGot(s) /\ LockTaken(s) /\ lock'[s].owner = "read")
          => /\ meta'[s].timestamp = rd[s].snap.ts
             /\ cfg[s].ver => meta'[s].version = rd[s].snap.ver]_vars

\* ------------------------------------------- order of upserts (SpecWrites)
\* Session s is at rest after local writes only: every $touchLocal call has
\* had its upsert answered, no job, timer or event is pending, and no event
\* was ever applied; its tree is then the snapshot written last.
AtRestAfterWrites(s) ==
    /\ cb[s].change > 0 /\ cb[s].read = 0
    /\ tl[s] = {} /\ job[s] = {} /\ deb[s] = Deb0
    /\ chan[s] = <<>> /\ lock[s] = Lock0

\* C34: with one session and no other writer, once every upsert issued has
\* settled the row holds the snapshot written last, in whatever order the
\* upserts were completed.
C34_RowIsLastSnapshot ==
    \A s \in Sess : AtRestAfterWrites(s) => row.data = Data(ToObject(tree[s]))

\* ------------------------------------------- rapid writes (SpecRapid)
\* One of a rapid sequence of assignments to the same key.
RapidWrite(s) ==
    /\ cb[s].mut < MaxWrites
    /\ \E v \in UserVals \cup {ABSENT} : Assignment(s, <<"a">>, v)
    /\ UNCHANGED ops
    /\ Forget

\* SpecRapid: one session without throttling, with and without a version
\* column; the user assigns the same key again and again; nobody else writes
\* the row, so every event is the echo of a write of the session.
NextRapid ==
    \/ \E s \in Sess : System(s)
    \/ \E s \in Sess : RapidWrite(s)
SpecRapid == Init /\ [][NextRapid]_vars

\* C33: in a rapid sequence of assignments to a key, no event of an earlier
\* write of the session changes the tree: the value stays the one assigned
\* last.
C33_NotRevertedByEcho ==
    [][\A s \in Sess : Consumed(s) => tree'[s] = tree[s]]_vars

\* C37: with a version column, the version an upsert carries is $meta.version
\* as $touchLocal leaves it when it sends that upsert.
C37_PayloadVersionIsMeta ==
    [][\A s \in Sess : \A w \in tl[s] :
          (cfg[s].ver /\ Issued(s, w)) => w.ver = meta'[s].version]_vars

\* ------------------------------------------------- $destroy (SpecGone)
\* SpecGone: one session, the default throttle, no version column;
\* the user mutates the tree and calls $destroy(); the runtime, the timers,
\* the network and the store do not stall, and $destroy() goes on once
\* onDestroy has returned.
InitGone == InitWith(Configs({FALSE}, {"short"}))
NextGone ==
    \/ \E s \in Sess : System(s)
    \/ \E s \in Sess : Debounced(s)
    \/ \E s \in Sess, v \in UserVals \cup {ABSENT} : Mutate(s, <<"a">>, v) /\ Forget
    \/ \E s \in Sess : DestroyCall(s) /\ Forget
    \/ \E s \in Sess : DestroyFinish(s) /\ Forget
SpecGone ==
    /\ InitGone /\ [][NextGone]_vars
    /\ \A s \in Sess : WF_vars(System(s)) /\ WF_vars(Debounced(s))
                       /\ WF_vars(DestroyFinish(s) /\ Forget)

\* C35: $destroy() calls onDestroy, leaving the tree as it is, while the
\* watcher is still registered, and only then unregisters it; it resolves
\* whatever upserts are in flight, leaving them as they are, and each of them
\* is applied by the remote afterwards.
C35_DestroyLeavesWrites ==
    /\ [][\A s \in Sess :
             cb'[s].destroy # cb[s].destroy
             => /\ cb'[s].destroy = 1 /\ ds[s] = "no" /\ ds'[s] = "cb"
                /\ watchers'[s] = watchers[s] /\ meta'[s] = meta[s]
                /\ tree'[s] = tree[s] /\ tl'[s] = tl[s]]_vars
    /\ [][\A s \in Sess :
             ds'[s] # ds[s] /\ ds'[s] = "done"
             => /\ ds[s] = "cb" /\ cb[s].destroy = 1
                /\ watchers'[s] = 0 /\ ~meta'[s].watcher
                /\ tl'[s] = tl[s] /\ promise'[s] = promise[s] /\ row' = row]_vars
    /\ \A s \in Sess : \A i \in 1..MaxWrites :
          (ds[s] = "done" /\ i \in Outstanding(s)) ~> (i \notin Outstanding(s) /\ ~\E w \in tl[s] : w.id = i)
\* $destroy() has resolved while an upsert of the session is in flight.
C35_Witness ==
    \E s \in Sess :
        /\ ds[s] = "done"
        /\ watchers[s] = 0
        /\ Outstanding(s) # {}
        /\ \E w \in tl[s] : w.pc = "upsert" /\ Data(w.payload) # row.data

\* ------------------------------------------------- array mode (SpecArray)
\* The settings of an array session: isArray, and no read by $init.  The keys
\* of its tree stand for the indices of the array.
ArrayMode(versioned, throttle) ==
    [Defaults(versioned, throttle) EXCEPT !.isArray = TRUE, !.read = FALSE]

\* SpecArray: one session in array mode, with and without a version column
\* and with and without throttling; its user mutates the tree and other
\* clients write the row it is subscribed to.
InitArray ==
    InitWith({[s \in Sess |-> IF s = "A" THEN ArrayMode(v, th) ELSE Off] :
                 v \in BOOLEAN, th \in {"off", "short"}})
NextArray ==
    \/ \E s \in Sess : InitFirst(s) /\ Forget
    \/ \E s \in Sess : TouchRemote(s) /\ Remember("remote", s, Head(chan[s]))
    \/ \E s \in Sess : LockRelease(s) /\ Forget
    \/ \E s \in Sess : VueFlush(s) /\ Forget
    \/ \E s \in Sess : Debounced(s)
    \/ \E s \in Sess, v \in UserVals \cup {ABSENT} : Mutate(s, <<"a">>, v) /\ Forget
    \/ OtherClient
SpecArray == InitArray /\ [][NextArray]_vars

\* The step runs the watcher callback of session s ($touchLocal, called by
\* the runtime or by the debounce timer) past its guard.
LocalChangeDetected(s) ==
    /\ ~meta[s].isUpdating
    /\ \/ job[s] # {} /\ job'[s] = {} /\ watchers[s] > 0 /\ cfg[s].throttle = "off"
       \/ deb[s].st # "idle" /\ deb'[s] = Deb0

\* C31: in an array session a change of the tree that the watcher reports
\* while the write lock is free makes $touchLocal fail at once: onChange is
\* not called, no upsert is prepared or sent, and $meta is as before; an
\* array session never calls onChange and never sends an upsert.
C31_ArrayWriteFails ==
    /\ [][\A s \in Sess :
             (cfg[s].isArray /\ LocalChangeDetected(s))
             => /\ cb'[s].failed = cb[s].failed + 1
                /\ cb'[s].change = cb[s].change /\ cb'[s].upsert = cb[s].upsert
                /\ tl'[s] = tl[s] /\ promise'[s] = promise[s]
                /\ meta'[s] = meta[s] /\ row' = row]_vars
    /\ [](\A s \in Sess :
             cfg[s].isArray
             => cb[s].change = 0 /\ cb[s].upsert = 0 /\ tl[s] = {} /\ promise[s] = 0)
\* An array session whose watcher has reported a change made by its user,
\* and $touchLocal has failed.
C31_Witness ==
    \E s \in Sess :
        /\ cfg[s].isArray
        /\ cb[s].mut > 0 /\ cb[s].failed > 0
        /\ job[s] = {} /\ deb[s] = Deb0
        /\ tree[s] # EmptyTree

\* ------------------------------------------- two writers (SpecDuel)
\* SpecDuel: sessions A and B on the same row, with the same settings and no
\* throttling; once both are initialised and at rest, the user of each
\* assigns or deletes key "a" once, before any upsert has been applied; there
\* is no other client.  The runtime, the network and the store do not stall.
InitDuel == InitWith({[s \in Sess |-> Defaults(v, "off")] : v \in BOOLEAN})
AtRest(s) ==
    /\ ip[s] = "done" /\ rd[s].pc = "idle"
    /\ ~meta[s].isUpdating /\ lock[s] = Lock0
    /\ job[s] = {} /\ chan[s] = <<>>
DuelWrite(s) ==
    /\ \A o \in Sess : AtRest(o) /\ cb[o].upsert = Cardinality(Outstanding(o))
    /\ cb[s].mut = 0
    /\ \E v \in UserVals \cup {ABSENT} : Mutate(s, <<"a">>, v)
    /\ Forget
NextDuel ==
    \/ \E s \in Sess : System(s)
    \/ \E s \in Sess : DuelWrite(s)
SpecDuel ==
    /\ InitDuel /\ [][NextDuel]_vars
    /\ \A s \in Sess : WF_vars(System(s))

\* C38: when both sessions have written, from some time on the tree of each
\* equals the data of the row.
C38_BothConverge ==
    <>[]((\A s \in Sess : cb[s].mut = 1) => Converged)

\* ------------------------------------- a change and the lock (SpecLate)
\* The user assigns a value to key "a" that no row holds, once, while the
\* watcher is registered and the write lock is free.
MutateFree(s) ==
    /\ cb[s].mut = 0
    /\ meta[s].watcher /\ watchers[s] > 0
    /\ ~meta[s].isUpdating
    /\ Mutate(s, <<"a">>, PRIM)
    /\ Forget

\* SpecLate: one session, throttle off or the default one, with and without
\* a version column; the user makes that change and may call $read(), with
\* or without force; other clients write the row; the runtime, the timers,
\* the network and the store do not stall.
InitLate == InitWith(Configs(BOOLEAN, {"off", "short"}))
NextLate ==
    \/ \E s \in Sess : System(s)
    \/ \E s \in Sess : Debounced(s)
    \/ \E s \in Sess : MutateFree(s)
    \/ \E s \in Sess, force \in BOOLEAN : UserRead(s, force) /\ Forget
    \/ OtherClient
SpecLate ==
    /\ InitLate /\ [][NextLate]_vars
    /\ \A s \in Sess : WF_vars(System(s)) /\ WF_vars(Debounced(s))

\* The value assigned is in the payload of a $touchLocal under way.
InPayload(s) == \E w \in tl[s] : w.payload[<<"a">>] = PRIM
\* C40: whenever the change of the user is waiting for the watcher callback
\* (in the job of the runtime or behind the debounce timer), the value
\* assigned is, some time later, in the payload of a write or no longer in
\* the tree.
C40_ChangeNotLeftBehind ==
    \A s \in Sess :
        ("user" \in Pending(s)) ~> (InPayload(s) \/ tree[s][<<"a">>] # PRIM)

\* ------------------------------- the earlier revision (SpecLegacy)
\* $watch.isWatching is read by $watch() and assigned nowhere.
LgIsWatching == "undefined"
\* isWatching == reactives.$watch.isWatching, for a boolean on the left.
LgSameState(isWatching) == (IF isWatching THEN "true" ELSE "false") = LgIsWatching

\* $watch(isWatching) of the earlier revision, on the session state l.
\* Subscribing registers a watcher and keeps its handle; unsubscribing calls
\* the handle kept (a TypeError when there is none: failed counts it).
LgWatchResult(l, isWatching) ==
    IF LgSameState(isWatching) THEN l
    ELSE IF isWatching
    THEN [l EXCEPT !.isSubscribed = "true", !.handle = TRUE, !.active = TRUE,
                   !.watchers = @ + 1]
    ELSE IF ~l.handle THEN [l EXCEPT !.failed = @ + 1]
    ELSE [l EXCEPT !.isSubscribed = "false", !.active = FALSE,
                   !.watchers = IF l.active THEN @ - 1 ELSE @,
                   !.job = IF l.active /\ l.watchers = 1 THEN FALSE ELSE @]

\* $init() after its read: $watch() if settings.watch, $subscribe().
LgInitRest(l) ==
    LET w == IF l.watch THEN LgWatchResult(l, TRUE) ELSE l
    IN  [w EXCEPT !.subs = @ + 1, !.pc = "done"]

OnlyLegacy ==
    /\ UNCHANGED <<now, cfg, tree, meta, watchers, subs, job, deb, ip, rd, lock,
                   tl, promise, chan, fl, ds, cb, ft, ops, last>>

\* $init(): run by SupabaseReactive(), and callable again; it throws when
\* $timestamp is truthy, and reads first (settings.read at its default).
LgInitCall ==
    /\ lg.pc \in {"new", "done"}
    /\ lg.pc = "done" => lg.ops < MaxOps /\ lg.calls < 2
    /\ LET l == [lg EXCEPT !.calls = @ + 1,
                           !.ops = IF lg.pc = "done" THEN @ + 1 ELSE @]
       IN lg' = IF Truthy(lg.timestamp) THEN [l EXCEPT !.threw = @ + 1]
                ELSE [l EXCEPT !.pc = "read"]
    /\ UNCHANGED row
    /\ OnlyLegacy

\* $read() of $init() gets its row: $timestamp and the tree are assigned
\* (Object.assign, no key removed), and $init() goes on.
LgReadDeliver ==
    /\ lg.pc = "read"
    /\ lg' = LgInitRest([lg EXCEPT !.timestamp = row.ts,
                                   !.tree = Assign(@, DataVal(row)),
                                   !.job = @ \/ (lg.watchers > 0
                                           /\ SetTriggers(lg.tree, DataVal(row), FALSE))])
    /\ UNCHANGED row
    /\ OnlyLegacy

\* The user calls $watch(isWatching).
LgWatchCall(isWatching) ==
    /\ lg.pc = "done"
    /\ lg.ops < MaxOps
    /\ lg' = [LgWatchResult(lg, isWatching) EXCEPT !.ops = @ + 1]
    /\ UNCHANGED row
    /\ OnlyLegacy

\* The user assigns or deletes a key of the tree.
LgMutate(k, v) ==
    /\ lg.pc = "done"
    /\ lg.ops < MaxOps
    /\ v # lg.tree[k]
    /\ lg' = [lg EXCEPT !.tree[k] = v, !.job = @ \/ lg.watchers > 0, !.ops = @ + 1]
    /\ UNCHANGED row
    /\ OnlyLegacy

\* The runtime runs the queued jobs: every registered watcher calls
\* $touchLocal(), which upserts the snapshot of the tree.
LgTouchLocal ==
    /\ lg.job
    /\ lg' = [lg EXCEPT !.job = FALSE, !.writes = @ + lg.watchers,
                        !.timestamp = [kind |-> "date", t |-> now]]
    /\ row' = [data |-> Data(ToObject(lg.tree)), ts |-> Str(now), ver |-> row.ver]
    /\ OnlyLegacy

InitLegacy ==
    /\ InitMain(Configs({FALSE}, {"off"}))
    /\ lg \in {Lg0(w) : w \in BOOLEAN}
NextLegacy ==
    \/ LgInitCall
    \/ LgReadDeliver
    \/ \E w \in BOOLEAN : LgWatchCall(w)
    \/ \E k \in Keys, v \in UserVals \cup {ABSENT} : LgMutate(k, v)
    \/ LgTouchLocal
SpecLegacy == InitLegacy /\ [][NextLegacy]_vars

\* C8: $watch is idempotent: however it is called, at most one watcher is
\* registered, the one $watch(false) stops, and no call of it fails.
C8_WatchIdempotent ==
    /\ lg.watchers = (IF lg.active THEN 1 ELSE 0)
    /\ lg.failed = 0

====
